---------------------------- MODULE Spec2Model ----------------------------
(***************************************************************************)
(* A model of package_it: core.package() (staging, archiving, secondary    *)
(* copies, git tagging) and cargo.version_control() (version read/bump).   *)
(*                                                                         *)
(* Strings are modelled as sequences of tokens.  A token is a path         *)
(* separator "/", a wildcard "*", "?" or "**", or a literal chunk of a     *)
(* file name, so that the tests the code makes on strings ('*' in src,     *)
(* dst[-1] != '/', basename, join, abspath) are computed on the tokens.    *)
(* Version strings are sequences of characters (digits and ".").           *)
(***************************************************************************)
EXTENDS Integers, Sequences, FiniteSets, TLC

\* ------------------------------------------------------------------ bounds
\* Number of successive invocations of package() in one behaviour.
MaxRuns == 2
\* Last value of the file-system clock (mtime granularity ticks).
MaxTime == 2
\* Largest MAJOR / MINOR / PATCH component of a manifest version.
MaxVer == 10

\* ------------------------------------------------------------------ strings
SEP == "/"

\* Python's None, as a value comparable with strings.
NONE == "<None>"

\* str(x) inside an f-string: the tokens a value contributes.
PyStr(x) == IF x = NONE THEN <<"None">> ELSE IF x = "" THEN <<>> ELSE <<x>>

\* Truthiness of an optional string ("if git_tag_prefix").
Truthy(x) == x # NONE /\ x # ""

EndsWithSep(p) == p # <<>> /\ p[Len(p)] = SEP

LastSepIdx(p) ==
    LET S == {i \in 1..Len(p) : p[i] = SEP}
    IN  IF S = {} THEN 0 ELSE CHOOSE i \in S : \A j \in S : j <= i

RECURSIVE StripSeps(_)
StripSeps(p) == IF EndsWithSep(p) THEN StripSeps(SubSeq(p, 1, Len(p) - 1)) ELSE p

\* os.path.basename: what follows the last separator.
Basename(p) == SubSeq(p, LastSepIdx(p) + 1, Len(p))

\* os.path.dirname: what precedes the last separator, trailing separators cut.
Dirname(p) == StripSeps(SubSeq(p, 1, LastSepIdx(p)))

\* os.path.join(a, b) for a relative b.
Join(a, b) == IF a = <<>> \/ EndsWithSep(a) THEN a \o b ELSE a \o <<SEP>> \o b

RECURSIVE Collapse(_)
Collapse(p) ==
    IF p = <<>> THEN <<>>
    ELSE IF Head(p) = SEP
         THEN LET r == Collapse(Tail(p))
              IN  IF r = <<>> \/ Head(r) = SEP THEN r ELSE <<SEP>> \o r
         ELSE <<Head(p)>> \o Collapse(Tail(p))

\* os.path.abspath, relative to the package directory: "." components and
\* empty components (doubled or trailing separators) are removed.
Norm(p) ==
    LET c == Collapse(SelectSeq(p, LAMBDA t : t # "."))
    IN  IF c # <<>> /\ Head(c) = SEP THEN Tail(c) ELSE c

\* A normalised directory and all the directories above it (<<>> is the
\* package directory itself): what os.makedirs creates.
Ancestors(d) ==
    {SubSeq(d, 1, i - 1) : i \in {j \in 1..Len(d) : d[j] = SEP}} \cup {d, <<>>}

\* f lies under directory d.
IsUnder(d, f) ==
    \/ d = <<>> /\ f # <<>>
    \/ /\ Len(f) > Len(d) + 1
       /\ SubSeq(f, 1, Len(d)) = d
       /\ f[Len(d) + 1] = SEP

\* ------------------------------------------------------------------ inputs
OutName == "out"
Version == "1.2.3"
Profile == "rel"

A_TXT  == <<"a", ".txt">>
B_TXT  == <<"b", ".txt">>
C_MD   == <<"c", ".md">>
DATA   == <<"data">>
DATA_F == <<"data", SEP, "f.bin">>

\* The source tree's paths, in the order the file system enumerates them.
SrcOrder == <<A_TXT, B_TXT, C_MD, DATA, DATA_F>>

\* Tokens that are one character long (what "?" matches).
OneChar == {"a", "b", "c"}

VARIABLES
    \* ---- inputs of package(), fixed over a behaviour
    opt,            \* ArgInit fields and the keyword parameters of package()
    mappingArg,     \* the mapping parameter
    srcFS,          \* the source tree: path -> [kind, mtime]
    \* ---- the world package() acts on
    pkgFiles,       \* regular files under pkg_dir: path -> [mtime, how, of]
    pkgDirs,        \* directories under pkg_dir (<<>> is pkg_dir itself)
    archives,       \* archive files under result_dir/archive: name -> file set
    now,            \* the file-system clock
    \* ---- one run of package()
    pc,             \* position in package()
    run,            \* number of runs started
    err,            \* the exception that ended the run ("" when none)
    mapping,        \* the local variable mapping (normalised, globbed, unrolled)
    tree_copy_dirs, \* the local list after line 185
    non_targets,    \* deletion candidates
    idx,            \* loop index of the loop at pc
    copies,         \* destinations copied in this run
    deletions,      \* files removed by step 3.1 in this run
    buildLog,       \* statuses build_callback returned in this run
    cbLog,          \* post-archive callbacks invoked in this run
    copyLog,        \* secondary copies attempted in this run: <<kind, dir, ok>>
    treeGot,        \* directories that received the staging tree in this run
    gitTags,        \* tags created in this run
    retval,         \* TRUE once a PackageResult has been returned
    archived,       \* TRUE once this run wrote its archive
    \* ---- history of the behaviour
    files0,         \* pkgFiles when the run started
    dirs0,          \* pkgDirs when the run started
    archives0,      \* archives when the run started
    prevPc,         \* pc at which the previous run ended ("idle" for the first)
    prevErr,        \* err with which the previous run ended
    \* ---- cargo.version_control()
    manifest,       \* Cargo.toml: [present, version], the [package].version field
    manifest0,      \* the manifest before the call
    bump,           \* the bump parameter: [given, major, minor, patch]
    vpc,            \* position in version_control()
    vret,           \* returned string
    vwrites         \* times the manifest was rewritten

pkgVars == <<opt, mappingArg, srcFS, pkgFiles, pkgDirs, archives, now, pc, run,
             err, mapping, tree_copy_dirs, non_targets, idx, copies, deletions,
             buildLog, cbLog, copyLog, treeGot, gitTags, retval, archived,
             files0, dirs0, archives0, prevPc, prevErr>>
verVars == <<manifest, manifest0, bump, vpc, vret, vwrites>>
vars == <<pkgVars, verVars>>

\* ------------------------------------------------------------------ source tree
SrcKind(p) == IF p \in DOMAIN srcFS THEN srcFS[p].kind ELSE "none"

\* os.path.isdir / os.path.isfile (a trailing separator names a directory).
IsDir(p) == SrcKind(StripSeps(p)) = "dir"
IsFile(p) == ~EndsWithSep(p) /\ SrcKind(p) = "file"

\* Files below directory d of the source tree, in enumeration order.
FilesBelow(d) ==
    SelectSeq(SrcOrder, LAMBDA f : SrcKind(f) = "file" /\ IsUnder(StripSeps(d), f))

\* Everything below directory d (files and directories).
AllBelow(d) ==
    SelectSeq(SrcOrder, LAMBDA f : SrcKind(f) # "none" /\ IsUnder(StripSeps(d), f))

\* ------------------------------------------------------------------ glob
RECURSIVE Match(_, _)
\* fnmatch of one path against a pattern without "**": "*" matches any run
\* of tokens within a component, "?" one character.
Match(pat, path) ==
    IF pat = <<>> THEN path = <<>>
    ELSE IF Head(pat) = "*"
         THEN \/ Match(Tail(pat), path)
              \/ path # <<>> /\ Head(path) # SEP /\ Match(pat, Tail(path))
    ELSE IF Head(pat) = "?"
         THEN path # <<>> /\ Head(path) \in OneChar /\ Match(Tail(pat), Tail(path))
    ELSE path # <<>> /\ Head(path) = Head(pat) /\ Match(Tail(pat), Tail(path))

\* '*' in src or '?' in src.
HasMagic(src) == \E i \in 1..Len(src) : src[i] \in {"*", "?", "**"}

\* '**' in src.
HasRecursive(src) == \E i \in 1..Len(src) : src[i] = "**"

\* src[:src.index('**')]
MagicPrefix(src) ==
    SubSeq(src, 1, (CHOOSE i \in 1..Len(src) :
                        src[i] = "**" /\ \A j \in 1..(i - 1) : src[j] # "**") - 1)

\* glob.glob(src)
GlobPlain(src) == SelectSeq(SrcOrder, LAMBDA p : SrcKind(p) # "none" /\ Match(src, p))

\* glob.glob(src, recursive=True) for a pattern "<prefix>**": the prefix
\* itself, then everything below it.
GlobRecursive(src) == <<MagicPrefix(src)>> \o AllBelow(MagicPrefix(src))


\* ------------------------------------------------------------------ package(): names
\* Line 200.
version_tag == IF opt.version_suffix # NONE THEN opt.version_suffix ELSE ""

\* Line 201 (the platform name and release, constant over a behaviour, are
\* left out of the name).
oname == <<OutName, "-", Version>> \o PyStr(version_tag) \o <<"-", Profile>>

\* Line 204.
oname_platform == oname \o <<".tar.gz">>

\* Lines 188-194: a missing or empty destination becomes the root "/".
NormArg(arg) ==
    IF Len(arg) = 1 THEN <<arg[1], <<SEP>>>>
    ELSE IF arg[2] = <<>> THEN <<arg[1], <<SEP>>>>
    ELSE arg

\* The guard without its test of the overwrite flag.
ArchiveGuardFails_IgnoresOverwrite ==
    ~opt.no_archive /\ oname_platform \in DOMAIN archives

\* Line 206: the archive-exists guard.
ArchiveGuardFails ==
    ~opt.overwrite /\ ~opt.no_archive /\ oname_platform \in DOMAIN archives

\* Line 210: whether the build callback is invoked.
BuildWanted == ~opt.no_build /\ opt.build_callback

\* Statuses a build callback may return.
BuildStatuses == {0, 1}

\* The build status is not looked at.
BuildFailed_Never(r) == FALSE

\* Line 212: a status that aborts the run.
BuildFailed(r) == 0 # r

\* Lines 218-221: the files under pkg_dir, when cleaning is enabled.
CollectNonTargets == IF ~opt.no_clean THEN DOMAIN pkgFiles ELSE {}

\* The destination of a globbed source is not checked.
BadGlobEntry_Never(e) == FALSE

\* Lines 227-230: a globbed source whose destination is no directory name.
BadGlobEntry(e) == HasMagic(e[1]) /\ e[2][Len(e[2])] # SEP

\* Lines 226-251: the entries one mapping entry expands to.
GlobEntry(e) ==
    LET src == e[1]
        dst == e[2]
    IN  IF HasMagic(src)
        THEN IF HasRecursive(src)
             THEN LET found == GlobRecursive(src)
                      n == Len(MagicPrefix(src))
                  IN  [i \in 1..Len(found) |->
                          <<found[i],
                            dst \o SubSeq(found[i], n + 1, Len(found[i])),
                            src>>]
             ELSE LET found == GlobPlain(src)
                  IN  [i \in 1..Len(found) |-> <<found[i], dst, src>>]
        ELSE << <<src, dst, src>> >>

RECURSIVE FlatMap(_, _, _)
\* The concatenation of Op(m[i]) for i = k .. Len(m).
FlatMap(Op(_), m, k) ==
    IF k > Len(m) THEN <<>> ELSE Op(m[k]) \o FlatMap(Op, m, k + 1)

\* Lines 224-254.
new_mapping(m) == FlatMap(GlobEntry, m, 1)

\* Lines 259-272: the files of a directory entry, each under the
\* destination joined with the file's directory relative to the source.
UnrollEntry(e) ==
    LET src == e[1]
        dst == e[2]
        d == StripSeps(src)
        files == IF IsFile(src) \/ ~IsDir(src) THEN <<>> ELSE FilesBelow(src)
    IN  [i \in 1..Len(files) |->
            LET rel == SubSeq(files[i], Len(d) + 2, Len(files[i]))
                dst_root == IF LastSepIdx(rel) = 0 THEN <<".">> ELSE Dirname(rel)
                root == IF LastSepIdx(rel) = 0 THEN src ELSE Join(src, Dirname(rel))
            IN  <<Join(root, Basename(rel)), Join(dst, dst_root) \o <<SEP>>, e[3]>>]

\* Lines 257-274.
unpacked(m) == FlatMap(UnrollEntry, m, 1)

\* Lines 280-284: the destination of an entry, relative to pkg_dir.
DstPath(e) ==
    <<OutName, SEP>> \o (IF EndsWithSep(e[2]) THEN e[2] \o Basename(e[1]) ELSE e[2])

\* Line 287: os.path.abspath(dst).
Target(e) == Norm(DstPath(e))

\* The comparison of line 297 the wrong way round.
UpToDate_Reversed(e) ==
    /\ ~opt.invalidate_all
    /\ SrcKind(e[1]) = "file" /\ ~EndsWithSep(e[1])
    /\ Target(e) \in DOMAIN pkgFiles
    /\ srcFS[e[1]].mtime > pkgFiles[Target(e)].mtime

\* Line 297: the destination is newer than the source (a missing source or
\* destination raises in getmtime, which the bare except swallows).
UpToDate(e) ==
    /\ ~opt.invalidate_all
    /\ SrcKind(e[1]) = "file" /\ ~EndsWithSep(e[1])
    /\ Target(e) \in DOMAIN pkgFiles
    /\ srcFS[e[1]].mtime < pkgFiles[Target(e)].mtime

\* Lines 293-299: the entry is not copied.
Skipped(e) == IsDir(e[1]) \/ UpToDate(e)

\* Line 307.
Filtered(e) == opt.copy_filters # {} /\ e[3] \in opt.copy_filters

\* Line 304: os.makedirs fails when a component of the path is a file.
MakedirsFails(e) ==
    \E a \in Ancestors(Norm(Dirname(DstPath(e)))) : a \in DOMAIN pkgFiles

\* Lines 308, 312: the source cannot be opened as a file, or (filter) the
\* destination is a directory.
OpenFails(e, dirs) == ~IsFile(e[1]) \/ (Filtered(e) /\ Target(e) \in dirs)

\* Line 312: shutil.copy into an existing directory copies under it.
CopyDest(e, dirs) ==
    IF ~Filtered(e) /\ Target(e) \in dirs
    THEN Norm(Join(Target(e), Basename(e[1])))
    ELSE Target(e)

\* How a copy that started may end: completely, or cut short by an error
\* (an I/O error in shutil.copy, an exception in the filter).
CopyOutcomes == {"ok", "cut"}

\* Lines 308-312: the file a copy leaves at the destination.
Written(e, outcome) ==
    [mtime |-> now,
     how |-> IF outcome = "cut" THEN "partial"
             ELSE IF Filtered(e) THEN "filter" ELSE "copy",
     of |-> e[1]]

\* Lines 320-324: the directories that survive pruning.
Pruned(dirs, files) == {d \in dirs : \E f \in DOMAIN files : IsUnder(d, f)}

\* Line 379.
TagName ==
    (IF Truthy(opt.git_tag_prefix) THEN PyStr(opt.git_tag_prefix) \o <<"-">>
     ELSE PyStr(NONE))
    \o <<"v", Version>> \o PyStr(version_tag)


\* ------------------------------------------------------------------ package(): steps
\* An exception leaves package(): the run is over.
Raise(e) == pc' = "raised" /\ err' = e

inputsUnchanged == UNCHANGED <<opt, mappingArg, srcFS>>
historyUnchanged == UNCHANGED <<files0, dirs0, archives0, prevPc, prevErr, run>>
worldUnchanged == UNCHANGED <<pkgFiles, pkgDirs, archives, now>>
logsUnchanged ==
    UNCHANGED <<copies, deletions, buildLog, cbLog, copyLog, treeGot, gitTags,
                retval, archived>>

\* Lines 184-204: package() is entered; the locals are set up.
StartRun ==
    /\ pc \in {"idle", "done", "raised"}
    /\ run < MaxRuns
    /\ run' = run + 1
    /\ prevPc' = pc /\ prevErr' = err
    /\ files0' = pkgFiles /\ dirs0' = pkgDirs /\ archives0' = archives
    /\ tree_copy_dirs' = opt.tree_copy_dirs \o opt.quick_copy_dirs
    /\ mapping' = [i \in 1..Len(mappingArg) |-> NormArg(mappingArg[i])]
    /\ non_targets' = {} /\ idx' = 1
    /\ copies' = {} /\ deletions' = {} /\ buildLog' = <<>>
    /\ cbLog' = <<>> /\ copyLog' = <<>> /\ treeGot' = {} /\ gitTags' = <<>>
    /\ retval' = FALSE /\ archived' = FALSE
    /\ pc' = "guard" /\ err' = ""
    /\ inputsUnchanged /\ worldUnchanged /\ UNCHANGED verVars

\* Lines 206-207.
Guard ==
    /\ pc = "guard"
    /\ IF ArchiveGuardFails THEN Raise("exists") ELSE pc' = "build" /\ err' = err
    /\ UNCHANGED <<mapping, tree_copy_dirs, non_targets, idx>>
    /\ inputsUnchanged /\ worldUnchanged /\ logsUnchanged /\ historyUnchanged
    /\ UNCHANGED verVars

\* Lines 210-213.
Build ==
    /\ pc = "build"
    /\ IF BuildWanted
       THEN \E r \in BuildStatuses :
               /\ buildLog' = Append(buildLog, r)
               /\ IF BuildFailed(r) THEN Raise("build")
                  ELSE pc' = "collect" /\ err' = err
       ELSE buildLog' = buildLog /\ pc' = "collect" /\ err' = err
    /\ UNCHANGED <<mapping, tree_copy_dirs, non_targets, idx>>
    /\ UNCHANGED <<copies, deletions, cbLog, copyLog, treeGot, gitTags, retval,
                   archived>>
    /\ inputsUnchanged /\ worldUnchanged /\ historyUnchanged /\ UNCHANGED verVars

\* Lines 216-221.
Collect ==
    /\ pc = "collect"
    /\ non_targets' = CollectNonTargets
    /\ pc' = "glob"
    /\ UNCHANGED <<err, mapping, tree_copy_dirs, idx>>
    /\ inputsUnchanged /\ worldUnchanged /\ logsUnchanged /\ historyUnchanged
    /\ UNCHANGED verVars

\* Lines 224-254.
Glob ==
    /\ pc = "glob"
    /\ IF \E i \in 1..Len(mapping) : BadGlobEntry(mapping[i])
       THEN Raise("glob") /\ mapping' = mapping
       ELSE mapping' = new_mapping(mapping) /\ pc' = "unroll" /\ err' = err
    /\ UNCHANGED <<tree_copy_dirs, non_targets, idx>>
    /\ inputsUnchanged /\ worldUnchanged /\ logsUnchanged /\ historyUnchanged
    /\ UNCHANGED verVars

\* Lines 257-274.
Unroll ==
    /\ pc = "unroll"
    /\ mapping' = mapping \o unpacked(mapping)
    /\ idx' = 1
    /\ pc' = IF Len(mapping') = 0 THEN "remove" ELSE "stage"
    /\ UNCHANGED <<err, tree_copy_dirs, non_targets>>
    /\ inputsUnchanged /\ worldUnchanged /\ logsUnchanged /\ historyUnchanged
    /\ UNCHANGED verVars

\* The position after entry idx of the staging loop.
AfterEntry == IF idx = Len(mapping) THEN "remove" ELSE "stage"

\* Lines 277-312: one iteration of the staging loop.
StageEntry ==
    /\ pc = "stage"
    /\ LET e == mapping[idx]
           dirs == pkgDirs \cup Ancestors(Norm(Dirname(DstPath(e))))
       IN  /\ non_targets' = non_targets \ {Target(e)}
           /\ IF Skipped(e)
              THEN /\ pc' = AfterEntry /\ err' = err
                   /\ UNCHANGED <<pkgFiles, pkgDirs, copies>>
              ELSE IF MakedirsFails(e)
              THEN /\ Raise("copy")
                   /\ copies' = copies \cup {idx}
                   /\ UNCHANGED <<pkgFiles, pkgDirs>>
              ELSE IF OpenFails(e, dirs)
              THEN /\ Raise("copy")
                   /\ copies' = copies \cup {idx}
                   /\ pkgDirs' = dirs
                   /\ UNCHANGED pkgFiles
              ELSE \E outcome \in CopyOutcomes :
                   /\ copies' = copies \cup {idx}
                   /\ pkgDirs' = dirs
                   /\ pkgFiles' = (CopyDest(e, dirs) :> Written(e, outcome)) @@ pkgFiles
                   /\ IF outcome = "ok" THEN pc' = AfterEntry /\ err' = err
                      ELSE Raise(IF Filtered(e) THEN "filter" ELSE "copy")
    /\ idx' = idx + 1
    /\ UNCHANGED <<mapping, tree_copy_dirs, archives, now>>
    /\ UNCHANGED <<deletions, buildLog, cbLog, copyLog, treeGot, gitTags, retval,
                   archived>>
    /\ inputsUnchanged /\ historyUnchanged /\ UNCHANGED verVars

\* The process is interrupted between two entries of the staging loop.
Interrupt ==
    /\ pc = "stage"
    /\ Raise("interrupt")
    /\ UNCHANGED <<mapping, tree_copy_dirs, non_targets, idx>>
    /\ inputsUnchanged /\ worldUnchanged /\ logsUnchanged /\ historyUnchanged
    /\ UNCHANGED verVars

\* Lines 315-317.
RemoveNonTargets ==
    /\ pc = "remove"
    /\ pkgFiles' = [f \in DOMAIN pkgFiles \ non_targets |-> pkgFiles[f]]
    /\ deletions' = non_targets
    /\ pc' = "prune"
    /\ UNCHANGED <<err, mapping, tree_copy_dirs, non_targets, idx>>
    /\ UNCHANGED <<pkgDirs, archives, now>>
    /\ UNCHANGED <<copies, buildLog, cbLog, copyLog, treeGot, gitTags, retval,
                   archived>>
    /\ inputsUnchanged /\ historyUnchanged /\ UNCHANGED verVars

\* Lines 320-324.
Prune ==
    /\ pc = "prune"
    /\ pkgDirs' = IF ~opt.allow_empty_dir THEN Pruned(pkgDirs, pkgFiles) ELSE pkgDirs
    /\ idx' = 1
    /\ pc' = IF Len(opt.quick_copy_dirs) = 0 THEN "result" ELSE "quick"
    /\ UNCHANGED <<err, mapping, tree_copy_dirs, non_targets>>
    /\ UNCHANGED <<pkgFiles, archives, now>>
    /\ logsUnchanged /\ inputsUnchanged /\ historyUnchanged /\ UNCHANGED verVars


\* Line 327: the directories the staging tree is copied to.
TreeCopyTargets == opt.quick_copy_dirs

\* Only the copy of the staging tree is guarded by try/except.
Caught_TreeOnly(kind) == kind = "tree"

\* Lines 332-337 and 371-376: an exception of a secondary copy is caught
\* (except Exception) and reported.
Caught(kind) == kind \in {"tree", "archive"}

\* Whether a secondary copy may succeed: shutil.copytree needs pkg_dir to
\* exist; either copy may fail for reasons of the target's own.
CopyResults(kind) ==
    IF kind = "tree" /\ <<>> \notin pkgDirs THEN {FALSE} ELSE {TRUE, FALSE}

\* Lines 327-337: one iteration of the staging-tree distribution loop.
QuickCopy ==
    /\ pc = "quick"
    /\ LET dir == TreeCopyTargets[idx]
           next == IF idx = Len(TreeCopyTargets) THEN "result" ELSE "quick"
       IN  IF dir = ""
           THEN pc' = next /\ err' = err /\ UNCHANGED <<copyLog, treeGot>>
           ELSE \E ok \in CopyResults("tree") :
                   /\ copyLog' = Append(copyLog, <<"tree", dir, ok>>)
                   /\ treeGot' = IF ok THEN treeGot \cup {dir} ELSE treeGot
                   /\ IF ok \/ Caught("tree") THEN pc' = next /\ err' = err
                      ELSE Raise("treecopy")
    /\ idx' = idx + 1
    /\ UNCHANGED <<mapping, tree_copy_dirs, non_targets>>
    /\ UNCHANGED <<copies, deletions, buildLog, cbLog, gitTags, retval, archived>>
    /\ inputsUnchanged /\ worldUnchanged /\ historyUnchanged /\ UNCHANGED verVars

\* Lines 354-358: the archive file written from pkg_dir.
ArchiveFile == [files |-> pkgFiles, by |-> run]

\* Lines 340-358: the result is built; without no_archive the archive is
\* written (shutil.make_archive cannot enter a missing pkg_dir).
Result ==
    /\ pc = "result"
    /\ IF opt.no_archive
       THEN /\ retval' = TRUE /\ pc' = "done" /\ err' = err
            /\ UNCHANGED <<archives, archived>>
       ELSE IF <<>> \notin pkgDirs
       THEN /\ Raise("archive")
            /\ UNCHANGED <<archives, archived, retval>>
       ELSE /\ archives' = (oname_platform :> ArchiveFile) @@ archives
            /\ archived' = TRUE
            /\ pc' = "callbacks" /\ err' = err
            /\ UNCHANGED retval
    /\ UNCHANGED <<mapping, tree_copy_dirs, non_targets, idx>>
    /\ UNCHANGED <<pkgFiles, pkgDirs, now>>
    /\ UNCHANGED <<copies, deletions, buildLog, cbLog, copyLog, treeGot, gitTags>>
    /\ inputsUnchanged /\ historyUnchanged /\ UNCHANGED verVars

\* Lines 360-364.
Callbacks ==
    /\ pc = "callbacks"
    /\ cbLog' = cbLog
                \o (IF opt.package_dir_callback THEN <<"package_dir">> ELSE <<>>)
                \o (IF opt.archive_file_callback THEN <<"archive_file">> ELSE <<>>)
    /\ idx' = 1
    /\ pc' = IF Len(opt.archive_copy_dirs) = 0 THEN "tag" ELSE "acopy"
    /\ UNCHANGED <<err, mapping, tree_copy_dirs, non_targets>>
    /\ UNCHANGED <<copies, deletions, buildLog, copyLog, treeGot, gitTags, retval,
                   archived>>
    /\ inputsUnchanged /\ worldUnchanged /\ historyUnchanged /\ UNCHANGED verVars

\* Lines 366-376: one iteration of the archive distribution loop.
ArchiveCopy ==
    /\ pc = "acopy"
    /\ LET dir == opt.archive_copy_dirs[idx]
           next == IF idx = Len(opt.archive_copy_dirs) THEN "tag" ELSE "acopy"
       IN  IF dir = ""
           THEN pc' = next /\ err' = err /\ UNCHANGED copyLog
           ELSE \E ok \in CopyResults("archive") :
                   /\ copyLog' = Append(copyLog, <<"archive", dir, ok>>)
                   /\ IF ok \/ Caught("archive") THEN pc' = next /\ err' = err
                      ELSE Raise("archivecopy")
    /\ idx' = idx + 1
    /\ UNCHANGED <<mapping, tree_copy_dirs, non_targets>>
    /\ UNCHANGED <<copies, deletions, buildLog, cbLog, treeGot, gitTags, retval,
                   archived>>
    /\ inputsUnchanged /\ worldUnchanged /\ historyUnchanged /\ UNCHANGED verVars

\* Lines 378-385.
GitTag ==
    /\ pc = "tag"
    /\ gitTags' = IF opt.auto_git_tag THEN Append(gitTags, TagName) ELSE gitTags
    /\ retval' = TRUE
    /\ pc' = "done"
    /\ UNCHANGED <<err, mapping, tree_copy_dirs, non_targets, idx>>
    /\ UNCHANGED <<copies, deletions, buildLog, cbLog, copyLog, treeGot, archived>>
    /\ inputsUnchanged /\ worldUnchanged /\ historyUnchanged /\ UNCHANGED verVars

\* The file-system clock advances by one tick of mtime granularity.
Tick ==
    /\ now < MaxTime
    /\ now' = now + 1
    /\ UNCHANGED <<pc, err, mapping, tree_copy_dirs, non_targets, idx>>
    /\ UNCHANGED <<pkgFiles, pkgDirs, archives>>
    /\ logsUnchanged /\ inputsUnchanged /\ historyUnchanged /\ UNCHANGED verVars


\* ------------------------------------------------------------------ version_control()
DigitChars == <<"0", "1", "2", "3", "4", "5", "6", "7", "8", "9">>

RECURSIVE Fmt(_)
\* f'{n}' of a natural number.
Fmt(n) == IF n < 10 THEN <<DigitChars[n + 1]>>
          ELSE Fmt(n \div 10) \o <<DigitChars[(n % 10) + 1]>>

IsDigits(s) == s # <<>> /\ \A i \in 1..Len(s) : \E d \in 1..10 : DigitChars[d] = s[i]

RECURSIVE ParseInt(_)
\* int(s) of a string of digits.
ParseInt(s) ==
    IF s = <<>> THEN 0
    ELSE ParseInt(SubSeq(s, 1, Len(s) - 1)) * 10
         + (CHOOSE d \in 0..9 : DigitChars[d + 1] = s[Len(s)])

RECURSIVE Split(_)
\* s.split(".")
Split(s) ==
    LET dots == {i \in 1..Len(s) : s[i] = "."}
    IN  IF dots = {} THEN <<s>>
        ELSE LET i == CHOOSE k \in dots : \A j \in dots : k <= j
             IN  <<SubSeq(s, 1, i - 1)>> \o Split(SubSeq(s, i + 1, Len(s)))

\* Line 38: the version unpacks into three integers.
Parses(text) ==
    Len(Split(text)) = 3 /\ \A i \in 1..3 : IsDigits(Split(text)[i])

\* Line 38.
Parsed(text) == [i \in 1..3 |-> ParseInt(Split(text)[i])]

\* A bump that does not zero the lower-precedence components.
Bumped_KeepsLower(v, b) ==
    IF b.major THEN <<v[1] + 1, v[2], v[3]>>
    ELSE IF b.minor THEN <<v[1], v[2] + 1, v[3]>>
    ELSE IF b.patch THEN <<v[1], v[2], v[3] + 1>>
    ELSE v

\* Lines 39-47: the bumped triple; the highest-precedence flag wins.
Bumped(v, b) ==
    IF b.major THEN <<v[1] + 1, 0, 0>>
    ELSE IF b.minor THEN <<v[1], v[2] + 1, 0>>
    ELSE IF b.patch THEN <<v[1], v[2], v[3] + 1>>
    ELSE v

\* Lines 48-49: no flag is set, the version is returned as read.
NoFlag(b) == ~b.major /\ ~b.minor /\ ~b.patch

\* Line 51.
FmtVersion(v) == Fmt(v[1]) \o <<".">> \o Fmt(v[2]) \o <<".">> \o Fmt(v[3])

\* Lines 8-60, for the bump parameter b (given = FALSE is bump=None); fin is
\* the position a return leaves the caller at.
Call(b, fin) ==
    /\ vpc = "idle"
    /\ IF ~manifest.present
       THEN vpc' = "raised" /\ UNCHANGED <<manifest, vret, vwrites>>
       ELSE IF ~b.given
       THEN vpc' = fin /\ vret' = manifest.version
            /\ UNCHANGED <<manifest, vwrites>>
       ELSE IF ~Parses(manifest.version)
       THEN vpc' = "raised" /\ UNCHANGED <<manifest, vret, vwrites>>
       ELSE IF NoFlag(b)
       THEN vpc' = fin /\ vret' = manifest.version
            /\ UNCHANGED <<manifest, vwrites>>
       ELSE LET version == FmtVersion(Bumped(Parsed(manifest.version), b))
            IN  /\ manifest' = [manifest EXCEPT !.version = version]
                /\ vwrites' = vwrites + 1
                /\ vret' = version
                /\ vpc' = fin
    /\ UNCHANGED <<bump, manifest0>>
    /\ UNCHANGED pkgVars

NoBump == [given |-> FALSE, major |-> FALSE, minor |-> FALSE, patch |-> FALSE]

\* cargo.py lines 8-60.
VersionControl == Call(bump, "done")

\* cargo.py lines 5-6.
GetVersion == Call(NoBump, "got")


\* ------------------------------------------------------------------ initial states
\* ArgInit(profile) (lines 110-119) and the defaults of package()'s keyword
\* parameters (lines 150-163).
DefaultOpt ==
    [no_archive |-> FALSE, no_build |-> FALSE, overwrite |-> FALSE,
     invalidate_all |-> FALSE, no_clean |-> FALSE, auto_git_tag |-> FALSE,
     allow_empty_dir |-> FALSE, version_suffix |-> NONE,
     quick_copy_dirs |-> <<>>, tree_copy_dirs |-> <<>>, archive_copy_dirs |-> <<>>,
     build_callback |-> FALSE, package_dir_callback |-> FALSE,
     archive_file_callback |-> FALSE, copy_filters |-> {}, git_tag_prefix |-> NONE]

\* A source tree: a.txt and b.txt with the given mtimes, c.md, and data,
\* which is a directory holding f.bin or a plain file.
SrcTree(am, bm, dk) ==
    (A_TXT :> [kind |-> "file", mtime |-> am])
    @@ (B_TXT :> [kind |-> "file", mtime |-> bm])
    @@ (C_MD :> [kind |-> "file", mtime |-> 0])
    @@ (DATA :> [kind |-> dk, mtime |-> 0])
    @@ (DATA_F :> [kind |-> IF dk = "dir" THEN "file" ELSE "none", mtime |-> 0])

SrcTimes == {0, 1}

DOCS == <<"docs", SEP>>
LIB  == <<"lib", SEP>>
STAR_TXT == <<"*", ".txt">>

\* Mappings of the staging family.
StageMappings ==
    { << <<A_TXT, DOCS>> >>,
      << <<A_TXT, <<"readme">>>> >>,
      << <<A_TXT>> >>,
      << <<STAR_TXT, DOCS>> >>,
      << <<<<"?", ".txt">>, <<>>>> >>,
      << <<A_TXT, DOCS>>, <<STAR_TXT, <<"docs">>>> >>,
      << <<STAR_TXT, <<"docs">>>>, <<A_TXT, DOCS>> >>,
      << <<DATA, LIB>> >>,
      << <<DATA, <<"pkgdata">>>> >>,
      << <<<<"data", SEP, "**">>, LIB>> >>,
      << <<A_TXT, DOCS>>, <<B_TXT, DOCS>> >>,
      << <<<<"nope">>, DOCS>> >> }

OldFile == [mtime |-> 1, how |-> "old", of |-> <<>>]

\* What a previous use may have left under pkg_dir.
PriorStagings ==
    { <<>>,
      (<<"stale">> :> OldFile),
      (<<OutName, SEP, "lib", SEP, "data">> :> OldFile),
      (<<OutName, SEP, "docs", SEP, "a", ".txt">> :> OldFile) }

\* The directories that hold the given files.
DirsOf(files) == UNION {Ancestors(Dirname(f)) : f \in DOMAIN files}

\* An archive left by an earlier use, under the name of a run without suffix.
PriorArchive ==
    (<<OutName, "-", Version, "-", Profile, ".tar.gz">> :> [files |-> <<>>, by |-> 0])

InitRun ==
    /\ now = 1
    /\ pc = "idle" /\ run = 0 /\ err = ""
    /\ mapping = <<>> /\ tree_copy_dirs = <<>> /\ non_targets = {} /\ idx = 1
    /\ copies = {} /\ deletions = {} /\ buildLog = <<>>
    /\ cbLog = <<>> /\ copyLog = <<>> /\ treeGot = {} /\ gitTags = <<>>
    /\ retval = FALSE /\ archived = FALSE
    /\ files0 = pkgFiles /\ dirs0 = pkgDirs /\ archives0 = archives
    /\ prevPc = "idle" /\ prevErr = ""

InitVersionIdle ==
    /\ manifest = [present |-> TRUE, version |-> <<"1", ".", "2", ".", "3">>]
    /\ manifest0 = manifest
    /\ bump = NoBump
    /\ vpc = "idle" /\ vret = <<>> /\ vwrites = 0

\* The staging family: the mapping, the source tree, the prior content of
\* pkg_dir and the flags the Stager reads vary; no archive is made.
InitStaging ==
    /\ mappingArg \in StageMappings
    /\ \E am \in SrcTimes, bm \in SrcTimes, dk \in {"dir", "file"} :
          srcFS = SrcTree(am, bm, dk)
    /\ pkgFiles \in PriorStagings
    /\ pkgDirs = DirsOf(pkgFiles)
    /\ archives = <<>>
    /\ \E nc \in BOOLEAN, ia \in BOOLEAN, ae \in BOOLEAN,
          cf \in {{}, {A_TXT, STAR_TXT}} :
          opt = [DefaultOpt EXCEPT !.no_archive = TRUE, !.no_clean = nc,
                                   !.invalidate_all = ia, !.allow_empty_dir = ae,
                                   !.copy_filters = cf]

\* The archiving family: the flags of the archive guard and of the build
\* hook, the version suffix, the callbacks and a prior archive vary.
InitArchiving ==
    /\ mappingArg \in { << <<A_TXT, DOCS>> >>,
                        << <<A_TXT, DOCS>>, <<STAR_TXT, <<"docs">>>> >> }
    /\ srcFS = SrcTree(0, 0, "dir")
    /\ pkgFiles = <<>> /\ pkgDirs = {}
    /\ archives \in {<<>>, PriorArchive}
    /\ \E na \in BOOLEAN, ow \in BOOLEAN, nb \in BOOLEAN, bc \in BOOLEAN,
          cb \in BOOLEAN, vs \in {NONE, "rc1"} :
          opt = [DefaultOpt EXCEPT !.no_archive = na, !.overwrite = ow,
                                   !.no_build = nb, !.build_callback = bc,
                                   !.package_dir_callback = cb,
                                   !.archive_file_callback = cb,
                                   !.version_suffix = vs]

\* The distribution family: the lists of additional locations vary.
InitDistribution ==
    /\ mappingArg = << <<A_TXT, DOCS>> >>
    /\ srcFS = SrcTree(0, 0, "dir")
    /\ pkgFiles = <<>> /\ pkgDirs = {}
    /\ archives = <<>>
    /\ \E na \in BOOLEAN,
          qd \in {<<>>, <<"q1", "", "q2">>},
          td \in {<<>>, <<"t1">>},
          ad \in {<<>>, <<"r1", "", "r2">>} :
          opt = [DefaultOpt EXCEPT !.no_archive = na, !.overwrite = TRUE,
                                   !.build_callback = TRUE,
                                   !.package_dir_callback = TRUE,
                                   !.archive_file_callback = TRUE,
                                   !.quick_copy_dirs = qd, !.tree_copy_dirs = td,
                                   !.archive_copy_dirs = ad]

\* The tagging family: the tagging flag, the tag prefix and the suffix vary.
InitTagging ==
    /\ mappingArg = << <<A_TXT, DOCS>> >>
    /\ srcFS = SrcTree(0, 0, "dir")
    /\ pkgFiles = <<>> /\ pkgDirs = {}
    /\ archives = <<>>
    /\ \E na \in BOOLEAN, gt \in BOOLEAN, gp \in {NONE, "", "app"},
          vs \in {NONE, "rc1"} :
          opt = [DefaultOpt EXCEPT !.no_archive = na, !.overwrite = TRUE,
                                   !.build_callback = TRUE,
                                   !.auto_git_tag = gt, !.git_tag_prefix = gp,
                                   !.version_suffix = vs]

Init ==
    /\ InitStaging \/ InitArchiving \/ InitDistribution \/ InitTagging
    /\ InitRun
    /\ InitVersionIdle

Next ==
    \/ StartRun \/ Guard \/ Build \/ Collect \/ Glob \/ Unroll \/ StageEntry
    \/ Interrupt \/ RemoveNonTargets \/ Prune \/ QuickCopy \/ Result
    \/ Callbacks \/ ArchiveCopy \/ GitTag \/ Tick

Spec == Init /\ [][Next]_vars

\* ---- version_control() on its own
VersionTexts ==
    {FmtVersion(<<a, b, c>>) : a \in 0..MaxVer, b \in 0..MaxVer, c \in 0..MaxVer}

\* Manifests: a plain MAJOR.MINOR.PATCH version, one with a zero-padded
\* component, one with two components only, and one without the field.
Manifests ==
    {[present |-> TRUE, version |-> t] : t \in VersionTexts}
    \cup {[present |-> TRUE, version |-> <<"0">> \o t] : t \in VersionTexts}
    \cup {[present |-> TRUE, version |-> <<"1", ".", "2">>],
          [present |-> FALSE, version |-> <<>>]}

Bumps ==
    {NoBump} \cup [given : {TRUE}, major : BOOLEAN, minor : BOOLEAN, patch : BOOLEAN]

InitPackageIdle ==
    /\ mappingArg = << <<A_TXT, DOCS>> >>
    /\ srcFS = SrcTree(0, 0, "dir")
    /\ pkgFiles = <<>> /\ pkgDirs = {}
    /\ archives = <<>>
    /\ opt = DefaultOpt
    /\ InitRun

InitVersion ==
    /\ InitPackageIdle
    /\ manifest \in Manifests
    /\ manifest0 = manifest
    /\ bump \in Bumps
    /\ vpc = "idle" /\ vret = <<>> /\ vwrites = 0

NextVersion == VersionControl \/ GetVersion

SpecVersion == InitVersion /\ [][NextVersion]_vars


\* ------------------------------------------------------------------ properties
\* Positions of a run at which the staging step (lines 277-324) is complete.
Staged == pc \in {"quick", "result", "callbacks", "acopy", "tag", "done"}

\* The resolved entries whose source is a regular file.
FileEntries == {i \in 1..Len(mapping) : IsFile(mapping[i][1])}

\* The destinations of the resolved file copy entries.
FileDests == {Target(mapping[i]) : i \in FileEntries}

\* The destinations of the resolved entries whose source is a directory.
DirDests == {Target(mapping[i]) : i \in (1..Len(mapping)) \ FileEntries}

\* C1: after a complete run the regular files under the staging directory
\* are exactly the destinations of the resolved file copy entries when
\* cleaning is enabled, and those destinations together with every file
\* present before the run when cleaning is disabled.
C1_StagedFilesExact ==
    pc = "done" =>
        DOMAIN pkgFiles = IF ~opt.no_clean THEN FileDests
                          ELSE FileDests \cup DOMAIN files0

\* What the code leaves instead (C1): with cleaning enabled, a prior file
\* at the destination of a directory entry survives too.
C1_StagedFilesActual ==
    pc = "done" =>
        DOMAIN pkgFiles = IF ~opt.no_clean
                          THEN FileDests \cup (DOMAIN files0 \cap DirDests)
                          ELSE FileDests \cup DOMAIN files0

\* The run at pc = "done" is the second of two complete runs in
\* succession, without invalidate-all (the mapping, the flags and the
\* source tree are those of the first).
SecondOfTwo == pc = "done" /\ prevPc = "done" /\ ~opt.invalidate_all

Stale0(i) ==
    LET e == mapping[i]
    IN  \/ Target(e) \notin DOMAIN files0
        \/ ~(srcFS[e[1]].mtime < files0[Target(e)].mtime)

GuardCondition0 ==
    ~opt.overwrite /\ ~opt.no_archive /\ oname_platform \in DOMAIN archives0

\* Nothing under the staging directory was written or deleted in this run.
StagingUntouched == pkgFiles = files0 /\ pkgDirs = dirs0

\* C3: the run raises "File already exists" exactly when the archive
\* exists at its start and neither overwrite nor no-archive is set, before
\* the build callback and before any change to the staging directory; the
\* second of two archive-producing runs raises without overwrite, and with
\* overwrite replaces the archive of the first.
C3_ArchiveGuard ==
    /\ (pc = "raised" /\ err = "exists") =>
           GuardCondition0 /\ buildLog = <<>> /\ StagingUntouched
           /\ archives = archives0
    /\ (pc \notin {"idle", "guard"} /\ GuardCondition0) =>
           pc = "raised" /\ err = "exists"
    /\ (pc \notin {"idle", "guard"} /\ run >= 2 /\ prevPc = "done"
        /\ ~opt.no_archive) =>
           IF ~opt.overwrite THEN pc = "raised" /\ err = "exists"
           ELSE /\ err # "exists"
                /\ archives0[oname_platform].by = run - 1
                /\ archived => archives[oname_platform] = [files |-> pkgFiles,
                                                           by |-> run]

C3_Witness ==
    /\ pc = "raised" /\ err = "exists" /\ run = 2 /\ prevPc = "done"
    /\ archives[oname_platform].by = 1

\* C4: the build callback is invoked at most once per run, only with
\* no-build unset and a callback supplied, before the mapping is resolved
\* and before any staging file is copied or deleted; a non-zero status
\* aborts the run with the staging directory unchanged, no archive, no
\* post-archive callback, no secondary copy and no tag.
C4_BuildHook ==
    /\ Len(buildLog) <= 1
    /\ buildLog # <<>> => ~opt.no_build /\ opt.build_callback
    /\ (pc \in {"guard", "build"}
        \/ (pc = "collect" /\ buildLog # <<>>)) =>
           /\ StagingUntouched
           /\ mapping = [i \in 1..Len(mappingArg) |-> NormArg(mappingArg[i])]
           /\ non_targets = {}
    /\ (pc \notin {"idle", "guard", "build"} /\ ~opt.no_build /\ opt.build_callback
        /\ ~(pc = "raised" /\ err = "exists")) => Len(buildLog) = 1
    /\ (buildLog # <<>> /\ buildLog[1] # 0) =>
           /\ pc = "raised" /\ err = "build"
           /\ StagingUntouched /\ archives = archives0 /\ ~archived
           /\ cbLog = <<>> /\ copyLog = <<>> /\ gitTags = <<>> /\ ~retval

C4_Witness ==
    /\ pc = "raised" /\ err = "build" /\ buildLog = <<1>>
    /\ opt.quick_copy_dirs # <<>> /\ opt.archive_copy_dirs # <<>>

\* Entry arg of the mapping parameter pairs a wildcard source with a
\* destination that does not end in "/".
Malformed(arg) == Len(arg) = 2 /\ HasMagic(arg[1]) /\ ~EndsWithSep(arg[2])

\* The run never gets past the glob step and changes neither the staging
\* directory nor the archives.
StopsAtGlob ==
    /\ pc \in {"idle", "guard", "build", "collect", "glob", "raised"}
    /\ pc = "raised" => err \in {"exists", "build", "glob"}
    /\ StagingUntouched /\ archives = archives0 /\ ~archived /\ ~retval

\* C5 as stated: a mapping entry with a wildcard source and a destination
\* that does not end in "/" makes package() raise with the staging
\* directory untouched and no archive produced.
C5_MalformedGlobFatal ==
    (\E i \in 1..Len(mappingArg) : Malformed(mappingArg[i])) => StopsAtGlob

\* C5 as amended: the same for a non-empty destination that does not end
\* in "/" (an empty destination is replaced by "/" first and is accepted).
C5_NonEmptyMalformedGlobFatal ==
    (\E i \in 1..Len(mappingArg) :
        Malformed(mappingArg[i]) /\ mappingArg[i][2] # <<>>) => StopsAtGlob

C5_Witness ==
    /\ pc = "raised" /\ err = "glob"
    /\ Len(mappingArg) = 2 /\ Malformed(mappingArg[2])
    /\ ~opt.no_clean /\ files0 # <<>> /\ pkgFiles = files0

\* C6: version_control() returns the version with the highest-precedence
\* set flag applied and rewrites the manifest's version to it; without a
\* bump instruction, or with all flags false, it returns the version as
\* read and does not rewrite the manifest.
C6_VersionBump ==
    (vpc = "done" /\ Parses(manifest0.version)) =>
        LET old == Parsed(manifest0.version)
            new == Parsed(vret)
        IN  IF ~bump.given \/ (~bump.major /\ ~bump.minor /\ ~bump.patch)
            THEN vret = manifest0.version /\ manifest = manifest0 /\ vwrites = 0
            ELSE /\ Parses(vret) /\ vret = FmtVersion(new)
                 /\ manifest.version = vret /\ vwrites = 1
                 /\ bump.major => new = <<old[1] + 1, 0, 0>>
                 /\ (~bump.major /\ bump.minor) => new = <<old[1], old[2] + 1, 0>>
                 /\ (~bump.major /\ ~bump.minor) => new = <<old[1], old[2], old[3] + 1>>
                 /\ (manifest0.version = <<"1", ".", "2", ".", "3">>) =>
                        vret = IF bump.major THEN <<"2", ".", "0", ".", "0">>
                               ELSE IF bump.minor THEN <<"1", ".", "3", ".", "0">>
                               ELSE <<"1", ".", "2", ".", "4">>

C6_Witness ==
    /\ vpc = "done" /\ bump.given /\ ~bump.major /\ bump.minor /\ bump.patch
    /\ manifest0.version = <<"1", ".", "9", ".", "3">>
    /\ vret = <<"1", ".", "1", "0", ".", "0">> /\ manifest.version = vret

\* The directories of a list that are not the empty string.
NonEmpty(dirs) == SelectSeq(dirs, LAMBDA d : d # "")

\* The directories to which a copy of the given kind was attempted.
Attempted(kind) ==
    LET log == SelectSeq(copyLog, LAMBDA c : c[1] = kind)
    IN  [i \in 1..Len(log) |-> log[i][2]]

\* C7: a failing secondary copy never raises; every remaining additional
\* location is still attempted, the primary archive is still produced and
\* the Package Result is still returned.
C7_SecondaryBestEffort ==
    /\ pc = "raised" => err \notin {"treecopy", "archivecopy"}
    /\ pc \in {"result", "callbacks", "acopy", "tag", "done"} =>
           Attempted("tree") = NonEmpty(opt.quick_copy_dirs)
    /\ pc \in {"tag", "done"} /\ ~opt.no_archive =>
           Attempted("archive") = NonEmpty(opt.archive_copy_dirs)
    /\ pc = "done" =>
           /\ retval
           /\ ~opt.no_archive =>
                  archived /\ archives[oname_platform].files = pkgFiles

C7_Witness ==
    /\ pc = "done" /\ retval /\ archived
    /\ copyLog = << <<"tree", "q1", FALSE>>, <<"tree", "q2", TRUE>>,
                    <<"archive", "r1", FALSE>>, <<"archive", "r2", TRUE>> >>

\* C8: once the staging step is complete and the distribution loop is
\* over, a copy of the staging tree has been made to every non-empty
\* directory of tree_copy_dirs, as it is to those of quick_copy_dirs.
C8_TreeCopyDirsServed ==
    pc \in {"result", "callbacks", "acopy", "tag", "done"} =>
        \A i \in 1..Len(opt.tree_copy_dirs) :
            opt.tree_copy_dirs[i] # "" =>
                \E j \in 1..Len(copyLog) :
                    copyLog[j][1] = "tree" /\ copyLog[j][2] = opt.tree_copy_dirs[i]

\* C9 (its clause on contents): when a run was aborted during staging, the
\* next complete clean-enabled run without invalidate-all leaves at every
\* resolved destination the content that copying or filtering its source
\* produces, never a partially written file.
C9_ConvergesAfterAbort ==
    (pc = "done" /\ prevPc = "raised" /\ prevErr \in {"interrupt", "copy", "filter"}
     /\ ~opt.no_clean /\ ~opt.invalidate_all) =>
        \A i \in FileEntries :
            /\ Target(mapping[i]) \in DOMAIN pkgFiles
            /\ pkgFiles[Target(mapping[i])].how # "partial"

\* The tag name C10 states.
StatedTag ==
    (IF Truthy(opt.git_tag_prefix) THEN <<opt.git_tag_prefix, "-">> ELSE <<>>)
    \o <<"v", Version>>
    \o (IF opt.version_suffix # NONE THEN <<opt.version_suffix>> ELSE <<>>)

\* C10: a run with tagging enabled that produces an archive creates exactly
\* one tag, after the archive is written, named <prefix>-v<version><suffix>
\* with a tag prefix and v<version><suffix> without; a run with tagging
\* disabled or with no-archive creates none.
C10_TagName ==
    /\ gitTags # <<>> => archived
    /\ pc = "done" =>
           gitTags = IF opt.auto_git_tag /\ ~opt.no_archive THEN <<StatedTag>>
                     ELSE <<>>

=============================================================================
